---- MODULE Spec2Model ----
(***************************************************************************)
(* Model of pcdswidgets/symbols/base.py: the PCDSSymbolBase widget, its    *)
(* configuration properties and the assembly of the interlock frame's      *)
(* layout.  One action per property setter / public method; the Qt layout  *)
(* objects are modelled by the few facts the code relies on (a widget has  *)
(* at most one layout, a layout has one parent, a box layout keeps its     *)
(* items in insertion order).                                              *)
(***************************************************************************)
EXTENDS Integers, Sequences, FiniteSets, TLC

\* ---------------------------------------------------------------- bounds
\* iconSize is set to values in -MaxSize .. MaxSize
MaxSize == 2
\* number of layout objects created by assemble_layout in one behaviour
MaxLayouts == 3

\* ------------------------------------------------------------- constants
\* class ContentLocation
Hidden == 0
Top == 1
Bottom == 2
Left == 3
Right == 4
ContentLocation == {Hidden, Top, Bottom, Left, Right}

\* iconSize setter, the size <= 0 branch
min_size == 1
max_size == 999999

\* Python's None (also: "no such attribute" for NAME)
None == "None"
NoName == "NoName"

\* the two child widgets that are placed in the interlock layout
IconWidget == "icon"
controls_frame == "controls_frame"

\* values handed to the setters
Prefixes == {None, "ca://VALVE"}
Names == {NoName, "Valve"}
Sizes == (0 - MaxSize) .. MaxSize

\* what box_layout.addWidget(None) does depends on the Qt binding behind
\* qtpy: the call raises TypeError, or the null widget is ignored with a
\* warning and the call returns
AddWidgetNone == {"TypeError", "ignored"}

\* geometry and visibility of a freshly created QWidget
QWidgetDefaults ==
    [visible |-> TRUE,
     policy  |-> <<"Preferred", "Preferred">>,
     minimum |-> <<0, 0>>,
     maximum |-> <<16777215, 16777215>>]

VARIABLES
    channels_prefix,       \* self._channels_prefix
    icon,                  \* self.icon: None or the icon widget
    show_icon,             \* self._show_icon
    show_status_tooltip,   \* self._show_status_tooltip
    icon_size,             \* self._icon_size
    controls_location,     \* self._controls_location
    NAME,                  \* the class's NAME attribute, NoName when absent
    iconW,                 \* visibility, size policy, min and max size of the icon
    controls_visible,      \* visibility last set on self.controls_frame
    layouts,               \* every layout object created for the interlock frame
    interlock_layout,      \* self.interlock.layout(): index in layouts, 0 for none
    toolTip,               \* self.toolTip()
    op,                    \* the operation that ran last and its argument
    outcome,               \* "ok" or the exception that ended the operation
    calls,                 \* calls to the symbol's own methods made by the operation
    result                 \* value returned by the operation

vars == <<channels_prefix, icon, show_icon, show_status_tooltip, icon_size,
          controls_location, NAME, iconW, controls_visible, layouts,
          interlock_layout, toolTip, op, outcome, calls, result>>

\* ------------------------------------------------------- layout objects
\* QVBoxLayout() / QHBoxLayout(): no items, no parent
QLayoutNew(kind) == [kind |-> kind, items |-> <<>>, parent |-> "none"]

\* the layout tree of the interlock frame: the layout objects and the one
\* the frame has
LayoutTree(objs, attached) == [objs |-> objs, attached |-> attached]

\* while layout.count() != 0: layout.removeItem(layout.itemAt(0))
RECURSIVE removeItems(_)
removeItems(items) ==
    IF Len(items) = 0 THEN items ELSE removeItems(Tail(items))

\* faulty variant: the layout is emptied but not re-parented onto the empty widget
clear_keepsLayout(lt) ==
    IF lt.attached = 0
    THEN lt
    ELSE [lt EXCEPT !.objs[lt.attached].items = removeItems(@)]

\* faulty variant: the layout is re-parented without removing its items
clear_keepsItems(lt) ==
    IF lt.attached = 0
    THEN lt
    ELSE [objs |-> [lt.objs EXCEPT ![lt.attached].parent = "throwaway"],
          attached |-> 0]

\* PCDSSymbolBase.clear
clear(lt) ==
    IF lt.attached = 0
    THEN lt
    ELSE LET emptied == [lt.objs EXCEPT ![lt.attached].items = removeItems(@)]
         IN  [objs |-> [emptied EXCEPT ![lt.attached].parent = "throwaway"],
              attached |-> 0]

\* self.interlock.setLayout(layout): Qt refuses (with a warning) when the
\* widget already has a layout
setLayout(lt, i) ==
    IF lt.attached # 0
    THEN lt
    ELSE [objs |-> [lt.objs EXCEPT ![i].parent = "interlock"], attached |-> i]

\* faulty variant: Top and Bottom (and Left and Right) orderings swapped
widget_map_swapped(loc, ic) ==
    CASE loc = Hidden -> [kind |-> "QVBoxLayout", widgets |-> <<ic>>]
      [] loc = Top    -> [kind |-> "QVBoxLayout", widgets |-> <<ic, controls_frame>>]
      [] loc = Bottom -> [kind |-> "QVBoxLayout", widgets |-> <<controls_frame, ic>>]
      [] loc = Left   -> [kind |-> "QHBoxLayout", widgets |-> <<ic, controls_frame>>]
      [] loc = Right  -> [kind |-> "QHBoxLayout", widgets |-> <<controls_frame, ic>>]

\* widget_map of assemble_layout: (Layout, items)
widget_map(loc, ic) ==
    CASE loc = Hidden -> [kind |-> "QVBoxLayout", widgets |-> <<ic>>]
      [] loc = Top    -> [kind |-> "QVBoxLayout", widgets |-> <<controls_frame, ic>>]
      [] loc = Bottom -> [kind |-> "QVBoxLayout", widgets |-> <<ic, controls_frame>>]
      [] loc = Left   -> [kind |-> "QHBoxLayout", widgets |-> <<controls_frame, ic>>]
      [] loc = Right  -> [kind |-> "QHBoxLayout", widgets |-> <<ic, controls_frame>>]

\* box_layout = QHBoxLayout(); box_layout.addWidget(widget)
BoxLayout(widget) ==
    [kind |-> "QHBoxLayout", items |-> IF widget = None THEN <<>> ELSE <<widget>>]

\* the loop of assemble_layout: the items added to the new layout, and
\* whether the loop ran to its end
RECURSIVE addWidgets(_, _, _)
addWidgets(widgets, visible, onNone) ==
    IF Len(widgets) = 0
    THEN [items |-> <<>>, ok |-> TRUE]
    ELSE LET widget == Head(widgets)
         IN  IF widget = controls_frame /\ ~visible
             THEN addWidgets(Tail(widgets), visible, onNone)
             ELSE IF widget = None /\ onNone = "TypeError"
             THEN [items |-> <<>>, ok |-> FALSE]
             ELSE LET rest == addWidgets(Tail(widgets), visible, onNone)
                  IN  [items |-> <<BoxLayout(widget)>> \o rest.items,
                       ok |-> rest.ok]

\* PCDSSymbolBase.assemble_layout: the new layout tree, the visibility set
\* on the controls frame and whether the method returned normally
assemble_layout(lt, loc, ic, onNone) ==
    LET cleared == clear(lt)
        entry   == widget_map(loc, ic)
        new     == Len(cleared.objs) + 1
        created == [cleared EXCEPT !.objs = Append(@, QLayoutNew(entry.kind))]
        set     == setLayout(created, new)
        visible == loc # Hidden
        added   == addWidgets(entry.widgets, visible, onNone)
    IN  [lt |-> [set EXCEPT !.objs[new].items = added.items],
         controls_visible |-> visible,
         ok |-> added.ok]

\* faulty variant: the name is shown only while showStatusTooltip is set
status_tooltip_flagged(name) ==
    IF show_status_tooltip /\ name # NoName THEN name ELSE ""

\* PCDSSymbolBase.status_tooltip
status_tooltip(name) == IF name # NoName THEN name ELSE ""

\* a call of one of the symbol's methods, with the prefix stored at that time
Call(fn, prefix) == [fn |-> fn, prefix |-> prefix]
Op(name, arg) == [name |-> name, arg |-> arg]

\* the property getters
channelsPrefix == channels_prefix
showIcon == show_icon
showStatusTooltip == show_status_tooltip
iconSize == icon_size

\* what every operation records about itself
Ran(name, arg, how, called, returned) ==
    /\ op' = Op(name, arg)
    /\ outcome' = how
    /\ calls' = called
    /\ result' = returned

\* the state an assemble_layout call leaves behind
Assembled(r) ==
    /\ layouts' = r.lt.objs
    /\ interlock_layout' = r.lt.attached
    /\ controls_visible' = r.controls_visible

Raised(r) == IF r.ok THEN "ok" ELSE "TypeError"

\* ---------------------------------------------------------- construction
\* PCDSSymbolBase.__init__ and setup_ui: the interlock frame and the
\* controls frame are created, the interlock frame gets no layout
Init ==
    /\ channels_prefix = None
    /\ icon = None
    /\ show_icon = TRUE
    /\ show_status_tooltip = TRUE
    /\ icon_size = -1
    /\ controls_location = Bottom
    /\ NAME \in Names
    /\ iconW = QWidgetDefaults
    /\ controls_visible = QWidgetDefaults.visible
    /\ layouts = <<>>
    /\ interlock_layout = 0
    /\ toolTip = ""
    /\ op = Op("__init__", None)
    /\ outcome = "ok"
    /\ calls = <<>>
    /\ result = None

\* a symbol subclass's constructor, run right after the base constructor:
\* it assigns the icon widget
subclass_init ==
    /\ op.name = "__init__"
    /\ icon' = IconWidget
    /\ iconW' = QWidgetDefaults
    /\ Ran("subclass_init", None, "ok", <<>>, None)
    /\ UNCHANGED <<channels_prefix, show_icon, show_status_tooltip, icon_size,
                   controls_location, NAME, controls_visible, layouts,
                   interlock_layout, toolTip>>

\* ------------------------------------------------------ property setters
\* faulty variant: the hooks run in the wrong order
set_channelsPrefix_createFirst(prefix) ==
    /\ IF prefix # channels_prefix
       THEN /\ channels_prefix' = prefix
            /\ Ran("channelsPrefix", prefix, "ok",
                   <<Call("create_channels", prefix), Call("destroy_channels", prefix)>>, None)
       ELSE /\ channels_prefix' = channels_prefix
            /\ Ran("channelsPrefix", prefix, "ok", <<>>, None)
    /\ UNCHANGED <<icon, show_icon, show_status_tooltip, icon_size,
                   controls_location, NAME, iconW, controls_visible, layouts,
                   interlock_layout, toolTip>>

\* channelsPrefix.setter; destroy_channels and create_channels do nothing
\* in the base class
set_channelsPrefix(prefix) ==
    /\ IF prefix # channels_prefix
       THEN /\ channels_prefix' = prefix
            /\ Ran("channelsPrefix", prefix, "ok",
                   <<Call("destroy_channels", prefix), Call("create_channels", prefix)>>, None)
       ELSE /\ channels_prefix' = channels_prefix
            /\ Ran("channelsPrefix", prefix, "ok", <<>>, None)
    /\ UNCHANGED <<icon, show_icon, show_status_tooltip, icon_size,
                   controls_location, NAME, iconW, controls_visible, layouts,
                   interlock_layout, toolTip>>

\* faulty variant: the layout is reassembled on every set
set_showIcon_always(value) ==
    /\ Len(layouts) < MaxLayouts
    /\ show_icon' = value
    /\ iconW' = IF icon # None THEN [iconW EXCEPT !.visible = value] ELSE iconW
    /\ \E onNone \in AddWidgetNone :
         LET r == assemble_layout(LayoutTree(layouts, interlock_layout),
                                  controls_location, icon, onNone)
         IN  /\ Assembled(r)
             /\ Ran("showIcon", value, Raised(r),
                    <<Call("assemble_layout", channels_prefix)>>, None)
    /\ UNCHANGED <<channels_prefix, icon, show_status_tooltip, icon_size,
                   controls_location, NAME, toolTip>>

\* showIcon.setter
set_showIcon(value) ==
    /\ IF value # show_icon
       THEN /\ Len(layouts) < MaxLayouts
            /\ show_icon' = value
            /\ iconW' = IF icon # None
                        THEN [iconW EXCEPT !.visible = value]
                        ELSE iconW
            /\ \E onNone \in AddWidgetNone :
                 LET r == assemble_layout(LayoutTree(layouts, interlock_layout),
                                          controls_location, icon, onNone)
                 IN  /\ Assembled(r)
                     /\ Ran("showIcon", value, Raised(r),
                            <<Call("assemble_layout", channels_prefix)>>, None)
       ELSE /\ Ran("showIcon", value, "ok", <<>>, None)
            /\ UNCHANGED <<show_icon, iconW, controls_visible, layouts,
                           interlock_layout>>
    /\ UNCHANGED <<channels_prefix, icon, show_status_tooltip, icon_size,
                   controls_location, NAME, toolTip>>

\* faulty variant: a change of the flag also refreshes the tooltip
set_showStatusTooltip_refreshes(value) ==
    /\ show_status_tooltip' = value
    /\ toolTip' = IF value # show_status_tooltip
                  THEN status_tooltip(NAME)
                  ELSE toolTip
    /\ Ran("showStatusTooltip", value, "ok", <<>>, None)
    /\ UNCHANGED <<channels_prefix, icon, show_icon, icon_size,
                   controls_location, NAME, iconW, controls_visible, layouts,
                   interlock_layout>>

\* showStatusTooltip.setter
set_showStatusTooltip(value) ==
    /\ show_status_tooltip' = IF value # show_status_tooltip
                              THEN value
                              ELSE show_status_tooltip
    /\ Ran("showStatusTooltip", value, "ok", <<>>, None)
    /\ UNCHANGED <<channels_prefix, icon, show_icon, icon_size,
                   controls_location, NAME, iconW, controls_visible, layouts,
                   interlock_layout, toolTip>>

\* faulty variant: zero is taken for a fixed size
iconGeometry_zeroFixed(w, size) ==
    IF size < 0
    THEN [w EXCEPT !.policy = <<"Expanding", "Expanding">>,
                   !.minimum = <<min_size, min_size>>,
                   !.maximum = <<max_size, max_size>>]
    ELSE [w EXCEPT !.policy = <<"Fixed", "Fixed">>,
                   !.minimum = <<size, size>>,
                   !.maximum = <<size, size>>]

\* iconSize.setter, the calls on self.icon: setSizePolicy with
\* setMinimumSize and setMaximumSize, or setFixedSize (minimum = maximum)
iconGeometry(w, size) ==
    IF size <= 0
    THEN [w EXCEPT !.policy = <<"Expanding", "Expanding">>,
                   !.minimum = <<min_size, min_size>>,
                   !.maximum = <<max_size, max_size>>]
    ELSE [w EXCEPT !.policy = <<"Fixed", "Fixed">>,
                   !.minimum = <<size, size>>,
                   !.maximum = <<size, size>>]

\* faulty variant: the size is stored before the icon is touched
set_iconSize_storesFirst(size) ==
    /\ icon_size' = IF size <= 0 THEN -1 ELSE size
    /\ IF icon = None
       THEN /\ Ran("iconSize", size, "AttributeError", <<>>, None)
            /\ UNCHANGED iconW
       ELSE /\ iconW' = iconGeometry(iconW, size)
            /\ Ran("iconSize", size, "ok", <<>>, None)
    /\ UNCHANGED <<channels_prefix, icon, show_icon, show_status_tooltip,
                   controls_location, NAME, controls_visible, layouts,
                   interlock_layout, toolTip>>

\* iconSize.setter: with self.icon None the first call on the icon raises
\* AttributeError, before self._icon_size is assigned
set_iconSize(size) ==
    /\ IF icon = None
       THEN /\ Ran("iconSize", size, "AttributeError", <<>>, None)
            /\ UNCHANGED <<icon_size, iconW>>
       ELSE /\ iconW' = iconGeometry(iconW, size)
            /\ icon_size' = IF size <= 0 THEN -1 ELSE size
            /\ Ran("iconSize", size, "ok", <<>>, None)
    /\ UNCHANGED <<channels_prefix, icon, show_icon, show_status_tooltip,
                   controls_location, NAME, controls_visible, layouts,
                   interlock_layout, toolTip>>

\* the controls-location setter the symbols inherit: on change it stores
\* the location and reassembles the layout
set_controlsLocation(location) ==
    /\ IF location # controls_location
       THEN /\ Len(layouts) < MaxLayouts
            /\ controls_location' = location
            /\ \E onNone \in AddWidgetNone :
                 LET r == assemble_layout(LayoutTree(layouts, interlock_layout),
                                          location, icon, onNone)
                 IN  /\ Assembled(r)
                     /\ Ran("controlsLocation", location, Raised(r),
                            <<Call("assemble_layout", channels_prefix)>>, None)
       ELSE /\ Ran("controlsLocation", location, "ok", <<>>, None)
            /\ UNCHANGED <<controls_location, controls_visible, layouts,
                           interlock_layout>>
    /\ UNCHANGED <<channels_prefix, icon, show_icon, show_status_tooltip,
                   icon_size, NAME, iconW, toolTip>>

\* ---------------------------------------------------------------- methods
\* faulty variant: clear does not return early when there is no layout
do_clear_unguarded ==
    /\ LET lt == clear(LayoutTree(layouts, interlock_layout))
       IN  /\ layouts' = lt.objs
           /\ interlock_layout' = lt.attached
    /\ Ran("clear", None,
           IF interlock_layout = 0 THEN "AttributeError" ELSE "ok", <<>>, None)
    /\ UNCHANGED <<channels_prefix, icon, show_icon, show_status_tooltip,
                   icon_size, controls_location, NAME, iconW,
                   controls_visible, toolTip>>

\* a call of clear()
do_clear ==
    /\ LET lt == clear(LayoutTree(layouts, interlock_layout))
       IN  /\ layouts' = lt.objs
           /\ interlock_layout' = lt.attached
    /\ Ran("clear", None, "ok", <<>>, None)
    /\ UNCHANGED <<channels_prefix, icon, show_icon, show_status_tooltip,
                   icon_size, controls_location, NAME, iconW,
                   controls_visible, toolTip>>

\* a call of assemble_layout()
do_assemble_layout ==
    /\ Len(layouts) < MaxLayouts
    /\ \E onNone \in AddWidgetNone :
         LET r == assemble_layout(LayoutTree(layouts, interlock_layout),
                                  controls_location, icon, onNone)
         IN  /\ Assembled(r)
             /\ Ran("assemble_layout", None, Raised(r), <<>>, None)
    /\ UNCHANGED <<channels_prefix, icon, show_icon, show_status_tooltip,
                   icon_size, controls_location, NAME, iconW, toolTip>>

\* a call of status_tooltip()
do_status_tooltip ==
    /\ Ran("status_tooltip", None, "ok", <<>>, status_tooltip(NAME))
    /\ UNCHANGED <<channels_prefix, icon, show_icon, show_status_tooltip,
                   icon_size, controls_location, NAME, iconW,
                   controls_visible, layouts, interlock_layout, toolTip>>

\* PCDSSymbolBase.update_status_tooltip
update_status_tooltip ==
    /\ toolTip' = status_tooltip(NAME)
    /\ Ran("update_status_tooltip", None, "ok", <<Call("status_tooltip", channels_prefix)>>, None)
    /\ UNCHANGED <<channels_prefix, icon, show_icon, show_status_tooltip,
                   icon_size, controls_location, NAME, iconW,
                   controls_visible, layouts, interlock_layout>>

Next ==
    \/ subclass_init
    \/ \E prefix \in Prefixes : set_channelsPrefix(prefix)
    \/ \E value \in BOOLEAN : set_showIcon(value)
    \/ \E value \in BOOLEAN : set_showStatusTooltip(value)
    \/ \E size \in Sizes : set_iconSize(size)
    \/ \E location \in ContentLocation : set_controlsLocation(location)
    \/ do_clear
    \/ do_assemble_layout
    \/ do_status_tooltip
    \/ update_status_tooltip

Spec == Init /\ [][Next]_vars

\* ================================================================ claims
\* the layout the documentation gives for a controls location
ExpectedKind(loc) ==
    IF loc \in {Hidden, Top, Bottom} THEN "QVBoxLayout" ELSE "QHBoxLayout"

ExpectedChildren(loc) ==
    IF loc = Hidden THEN <<"icon">>
    ELSE IF loc \in {Top, Left} THEN <<"controls_frame", "icon">>
    ELSE <<"icon", "controls_frame">>

\* the interlock frame has a layout of the orientation for loc whose
\* children are the widgets for loc, in order, each in a sub-layout of its own
LayoutReflects(loc) ==
    /\ interlock_layout \in DOMAIN layouts
    /\ LET l == layouts[interlock_layout]
       IN  /\ l.parent = "interlock"
           /\ l.kind = ExpectedKind(loc)
           /\ Len(l.items) = Len(ExpectedChildren(loc))
           /\ \A i \in DOMAIN l.items :
                l.items[i].items = <<ExpectedChildren(loc)[i]>>

\* the operation that ran last called assemble_layout
Reassembled ==
    \/ op.name = "assemble_layout"
    \/ \E i \in DOMAIN calls : calls[i].fn = "assemble_layout"

\* how often widget w occurs among the children of layout l
Occurrences(l, w) ==
    Cardinality({i \in DOMAIN l.items :
                   \E j \in DOMAIN l.items[i].items : l.items[i].items[j] = w})

\* C1 as stated: right after assemble_layout, whatever the symbol, the
\* interlock layout has the orientation and the wrapped children of the
\* controls location, and the controls frame is hidden exactly for Hidden.
C1_AssembleProducesLayout_Any ==
    op.name = "assemble_layout" =>
        /\ LayoutReflects(controls_location)
        /\ controls_visible = (controls_location # Hidden)

\* C1 amended: right after assemble_layout on a symbol that has an icon, the
\* interlock layout is vertical for Hidden, Top, Bottom and horizontal for
\* Left, Right, its children are [icon], [controls, icon] or [icon, controls]
\* as documented, each in its own sub-layout, and the controls frame is set
\* not visible exactly when the location is Hidden.
C1_AssembleProducesLayout ==
    (op.name = "assemble_layout" /\ icon # None) =>
        /\ outcome = "ok"
        /\ LayoutReflects(controls_location)
        /\ controls_visible = (controls_location # Hidden)

C1_Witness ==
    /\ op.name = "assemble_layout"
    /\ icon # None
    /\ controls_location = Left
    /\ LayoutReflects(Left)
    /\ controls_visible

\* C2 as stated: in every reachable state the interlock frame has a layout
\* with the orientation and children of the current controls location.
C2_LayoutAlwaysReflects_Any == LayoutReflects(controls_location)

\* C2 amended: in every reachable state of a symbol that has an icon in which
\* the interlock frame has a layout, that layout has the orientation and the
\* child ordering of the current controls location.
C2_LayoutAlwaysReflects ==
    (icon # None /\ interlock_layout # 0) => LayoutReflects(controls_location)

C2_Witness ==
    /\ icon # None
    /\ interlock_layout # 0
    /\ op.name = "showStatusTooltip"
    /\ controls_location = Top
    /\ Len(layouts) >= 2

\* C3: after an operation that ran assemble_layout, the interlock frame has
\* exactly one layout attached (the newest), every earlier layout object is
\* empty and not attached to the interlock frame, and the icon and the
\* controls frame each occur at most once among the attached layout's children.
C3_OneLayoutNoDuplicates ==
    Reassembled =>
        /\ Cardinality({i \in DOMAIN layouts : layouts[i].parent = "interlock"}) = 1
        /\ interlock_layout = Len(layouts)
        /\ layouts[interlock_layout].parent = "interlock"
        /\ \A i \in DOMAIN layouts :
             i # interlock_layout =>
                /\ layouts[i].items = <<>>
                /\ layouts[i].parent # "interlock"
        /\ Occurrences(layouts[interlock_layout], "icon") <= 1
        /\ Occurrences(layouts[interlock_layout], "controls_frame") <= 1

C3_Witness ==
    /\ op.name = "assemble_layout"
    /\ icon # None
    /\ Len(layouts) = 3
    /\ Occurrences(layouts[3], "icon") = 1
    /\ Occurrences(layouts[3], "controls_frame") = 1

\* C4: a channelsPrefix set with a value different from the stored prefix
\* stores it and calls destroy_channels once, then create_channels once, both
\* with the new prefix stored; a set with the stored value calls no hook and
\* changes nothing.
C4_PrefixSetCallsHooks ==
    [][op'.name = "channelsPrefix" =>
         /\ outcome' = "ok"
         /\ IF op'.arg # channels_prefix
            THEN /\ channels_prefix' = op'.arg
                 /\ calls' = << [fn |-> "destroy_channels", prefix |-> op'.arg],
                                [fn |-> "create_channels", prefix |-> op'.arg] >>
            ELSE /\ calls' = <<>>
                 /\ channels_prefix' = channels_prefix
         /\ UNCHANGED <<icon, show_icon, show_status_tooltip, icon_size,
                        controls_location, NAME, iconW, controls_visible,
                        layouts, interlock_layout, toolTip>>
      ]_vars

C4_Witness ==
    /\ op = [name |-> "channelsPrefix", arg |-> "ca://VALVE"]
    /\ channels_prefix = "ca://VALVE"
    /\ Len(calls) = 2
    /\ calls[1].fn = "destroy_channels"

\* C5: a showIcon set reassembles the layout once when its value differs from
\* the stored flag and not at all when it equals it, so the reassemblies
\* number the changing sets; a changing set also sets the visibility of a
\* present icon to the new value.
C5_ShowIconReassemblesOnChange ==
    [][op'.name = "showIcon" =>
         LET changing == op'.arg # show_icon
             n == Cardinality({i \in DOMAIN calls' : calls'[i].fn = "assemble_layout"})
         IN  /\ n = (IF changing THEN 1 ELSE 0)
             /\ Len(layouts') = Len(layouts) + n
             /\ show_icon' = op'.arg
             /\ (changing /\ icon # None) => iconW'.visible = op'.arg
             /\ ~changing => UNCHANGED <<iconW, layouts, interlock_layout>>
      ]_vars

C5_Witness ==
    /\ op = [name |-> "showIcon", arg |-> FALSE]
    /\ icon # None
    /\ ~show_icon
    /\ ~iconW.visible
    /\ Len(calls) = 1
    /\ Len(layouts) = 2

\* C6: after an iconSize set on a symbol that has an icon: for size <= 0 the
\* icon has policy Expanding in both directions, minimum 1x1, maximum
\* 999999x999999 and the property reads -1; for size > 0 the icon has policy
\* Fixed and minimum = maximum = size x size, and the property reads size.
C6_IconSizeGeometry ==
    (op.name = "iconSize" /\ icon # None) =>
        /\ outcome = "ok"
        /\ IF op.arg <= 0
           THEN /\ iconW.policy = <<"Expanding", "Expanding">>
                /\ iconW.minimum = <<1, 1>>
                /\ iconW.maximum = <<999999, 999999>>
                /\ iconSize = -1
           ELSE /\ iconW.policy = <<"Fixed", "Fixed">>
                /\ iconW.minimum = <<op.arg, op.arg>>
                /\ iconW.maximum = <<op.arg, op.arg>>
                /\ iconSize = op.arg

C6_Witness ==
    /\ op = [name |-> "iconSize", arg |-> 0]
    /\ icon # None
    /\ icon_size = -1
    /\ iconW.policy = <<"Expanding", "Expanding">>

\* C7: an iconSize set on a symbol without an icon ends in an error and
\* leaves the stored icon size and every other field unchanged.
C7_IconSizeWithoutIconFails ==
    [][(op'.name = "iconSize" /\ icon = None) =>
         /\ outcome' # "ok"
         /\ UNCHANGED <<channels_prefix, icon, show_icon, show_status_tooltip,
                        icon_size, controls_location, NAME, iconW,
                        controls_visible, layouts, interlock_layout, toolTip>>
      ]_vars

C7_Witness ==
    /\ op = [name |-> "iconSize", arg |-> 2]
    /\ icon = None
    /\ outcome = "AttributeError"
    /\ icon_size = -1

\* C8: clear on an interlock frame without a layout returns without error
\* and leaves the widget state unchanged.
C8_ClearWithoutLayoutIsNoop ==
    [][(op'.name = "clear" /\ interlock_layout = 0) =>
         /\ outcome' = "ok"
         /\ UNCHANGED <<channels_prefix, icon, show_icon, show_status_tooltip,
                        icon_size, controls_location, NAME, iconW,
                        controls_visible, layouts, interlock_layout, toolTip>>
      ]_vars

C8_Witness ==
    /\ op.name = "clear"
    /\ outcome = "ok"
    /\ interlock_layout = 0
    /\ layouts = <<>>

\* C9: a showStatusTooltip set stores the flag and changes nothing else: no
\* layout, visibility, tooltip text, prefix, icon size or show-icon change,
\* no reassembly and no hook call, whether or not the value differs.
C9_TooltipFlagOnly ==
    [][op'.name = "showStatusTooltip" =>
         /\ show_status_tooltip' = op'.arg
         /\ outcome' = "ok"
         /\ calls' = <<>>
         /\ UNCHANGED <<channels_prefix, icon, show_icon, icon_size,
                        controls_location, NAME, iconW, controls_visible,
                        layouts, interlock_layout, toolTip>>
      ]_vars

C9_Witness ==
    /\ op = [name |-> "showStatusTooltip", arg |-> FALSE]
    /\ ~show_status_tooltip
    /\ NAME = "Valve"
    /\ toolTip = ""
    /\ interlock_layout # 0

====
